---- MODULE Spec2Model ----
(***************************************************************************)
(* A model of trivia_rubric.py: the literal-string tokenizer, the          *)
(* printable-token filter and sanitizer, the round segmenter and the       *)
(* question/answer parser.                                                 *)
(*                                                                         *)
(* Text is a sequence of character codes (Python's ord), so that chr/ord,  *)
(* the octal escapes and the printable range are computed as the code      *)
(* computes them.  Indices named after the source's (i, pos, start) are    *)
(* 0-based as in the source; At(s, i) reads s[i].                          *)
(***************************************************************************)
EXTENDS Integers, Sequences, FiniteSets, TLC

VARIABLES
    data, match_end,                               \* read_stream_strings
    content, i, depth, chunk, tokens,              \* _strings_from_stream
    body, matches, mi, expected_number, entries,   \* _parse_questions
    segment, answer,                               \* extract_answer
    strings, sanitized,                            \* extract_text
    rounds, exit,                                  \* parse_rounds, main
    pc

rdVars == <<data, match_end>>
tokVars == <<content, i, depth, chunk, tokens>>
pqVars == <<body, matches, mi, expected_number, entries>>
eaVars == <<segment, answer>>
txtVars == <<strings, sanitized>>
docVars == <<rounds, exit>>
vars == <<rdVars, tokVars, pqVars, eaVars, txtVars, docVars, pc>>

-----------------------------------------------------------------------------
(* Characters *)

\* The printable ASCII characters, codes 32..126, in code order (code 96, the
\* grave accent, cannot be written in a TLA+ string and is spelled out).
Printable ==
    << " ", "!", "\"", "#", "$", "%", "&", "'", "(", ")", "*", "+", ",", "-", ".", "/",
       "0", "1", "2", "3", "4", "5", "6", "7", "8", "9", ":", ";", "<", "=", ">", "?",
       "@", "A", "B", "C", "D", "E", "F", "G", "H", "I", "J", "K", "L", "M", "N", "O",
       "P", "Q", "R", "S", "T", "U", "V", "W", "X", "Y", "Z", "[", "\\", "]", "^", "_",
       "grave", "a", "b", "c", "d", "e", "f", "g", "h", "i", "j", "k", "l", "m", "n", "o",
       "p", "q", "r", "s", "t", "u", "v", "w", "x", "y", "z", "{", "|", "}", "~" >>

\* ord(c) of a printable character written as a one-character string.
Ord(c) == 31 + (CHOOSE k \in 1..Len(Printable) : Printable[k] = c)

\* A text literal: the codes of a tuple of one-character strings.
Str(s) == [k \in 1..Len(s) |-> Ord(s[k])]

\* The characters the code names.
SPACE == Ord(" ")

LPAREN == Ord("(")

RPAREN == Ord(")")

BACKSLASH == Ord("\\")

QMARK == Ord("?")

BANG == Ord("!")

PIPE == Ord("|")

SLASH == Ord("/")

COMMA == Ord(",")

DOT == Ord(".")

COLON == Ord(":")

ZERO == Ord("0")

\* Python's None, for an integer or a text that is absent.
None == -1

At(s, k) == s[k + 1]

\* s[a:b] for 0 <= a, and b clipped to len(s) as Python clips it.
Slice(s, a, b) == SubSeq(s, a + 1, IF b > Len(s) THEN Len(s) ELSE b)

Min(S) == CHOOSE x \in S : \A y \in S : x <= y

Max(S) == CHOOSE x \in S : \A y \in S : x >= y

TAB == SPACE - 23

LF == SPACE - 22

CR == SPACE - 19

\* str.isspace() and the regex class \s, for the codes below 512.
WhitespaceCodes == {TAB, LF, LF + 1, LF + 2, CR, 28, 29, 30, 31, SPACE, 133, 160}

IsSpace(c) == c \in WhitespaceCodes

\* The regex class \d, for the codes below 512.
IsDigit(c) == ZERO <= c /\ c <= ZERO + 9

\* str.strip(): without the leading and trailing whitespace.
Strip(s) ==
    LET keep == {k \in 1..Len(s) : ~IsSpace(s[k])}
    IN  IF keep = {} THEN <<>> ELSE SubSeq(s, Min(keep), Max(keep))

\* "".join(items)
RECURSIVE Concat(_)
Concat(ts) == IF ts = <<>> THEN <<>> ELSE Head(ts) \o Concat(Tail(ts))

\* int(text) of a run of ASCII digits.
RECURSIVE ParseInt(_)
ParseInt(s) ==
    IF s = <<>> THEN 0
    ELSE 10 * ParseInt(SubSeq(s, 1, Len(s) - 1)) + (s[Len(s)] - ZERO)

-----------------------------------------------------------------------------
(* _strings_from_stream *)

\* The mapping of the named escapes: nxt -> the character it stands for.
mapping ==
    [c \in {Ord("n"), Ord("r"), Ord("t"), Ord("b"), Ord("f"), LPAREN, RPAREN, BACKSLASH}
        |-> CASE c = Ord("n") -> LF
              [] c = Ord("r") -> CR
              [] c = Ord("t") -> TAB
              [] c = Ord("b") -> TAB - 1
              [] c = Ord("f") -> LF + 2
              [] OTHER -> c]

\* mapping.get(nxt, nxt)
EscapeMap(nxt) == IF nxt \in DOMAIN mapping THEN mapping[nxt] ELSE nxt

\* nxt in "nrtbf()\\"
NamedEscapes == {Ord("n"), Ord("r"), Ord("t"), Ord("b"), Ord("f"), LPAREN, RPAREN, BACKSLASH}

IsNamedEscape(nxt) == nxt \in NamedEscapes

\* "0" <= c <= "7"
IsOctal(c) == ZERO <= c /\ c <= ZERO + 7

\* The most digits an octal escape reads.
MaxOctDigits == 3

\* As OctEnd, reading one digit only.
OctEndOneDigit(c, j0, j) == j0 + 1

\* As OctEnd, with the index left at the backslash: i = j moves nothing on.
OctEndStuck(c, j0, j) == j0 - 1

\* The end j of the octal run that starts at j0: the scan stops at the end of
\* the block, after MaxOctDigits digits, or at the first non-octal character.
RECURSIVE OctEnd(_, _, _)
OctEnd(c, j0, j) ==
    IF j < Len(c) /\ j - j0 < MaxOctDigits /\ IsOctal(At(c, j))
    THEN OctEnd(c, j0, j + 1)
    ELSE j

\* int("".join(oct_digits), 8)
RECURSIVE OctValue(_)
OctValue(ds) ==
    IF ds = <<>> THEN 0
    ELSE 8 * OctValue(SubSeq(ds, 1, Len(ds) - 1)) + (ds[Len(ds)] - ZERO)

\* As InnerBranch, with an unescaped "(" inside a token taken as plain text.
InnerBranchFlat(c, k) ==
    LET ch == At(c, k)
    IN  IF ch = BACKSLASH /\ k + 1 < Len(c)
        THEN IF IsNamedEscape(At(c, k + 1)) THEN "named"
             ELSE IF IsOctal(At(c, k + 1)) THEN "octal"
             ELSE "other"
        ELSE IF ch = RPAREN THEN "close"
        ELSE "copy"

\* Which branch of the inner loop's body runs at index k of block c.
InnerBranch(c, k) ==
    LET ch == At(c, k)
    IN  IF ch = BACKSLASH /\ k + 1 < Len(c)
        THEN IF IsNamedEscape(At(c, k + 1)) THEN "named"
             ELSE IF IsOctal(At(c, k + 1)) THEN "octal"
             ELSE "other"
        ELSE IF ch = LPAREN THEN "nest"
        ELSE IF ch = RPAREN THEN "close"
        ELSE "copy"

\* As CloseChunk, with the closing parenthesis always emitted.
CloseChunkAlways(d, ck, ch) == Append(ck, ch)

\* Lines 87-92: the chunk after an unescaped ")" met at depth d: the ")" that
\* closes the token is not emitted.
CloseChunk(d, ck, ch) == IF d - 1 = 0 THEN ck ELSE Append(ck, ch)

\* One iteration of the inner loop: the new index, depth and chunk.
InnerStep(c, k, d, ck) ==
    LET br == InnerBranch(c, k)
        ch == At(c, k)
    IN  CASE br = "named" ->
               [i |-> k + 2, depth |-> d, chunk |-> Append(ck, EscapeMap(At(c, k + 1)))]
          [] br = "octal" ->
               LET j == OctEnd(c, k + 1, k + 1)
               IN  [i |-> j, depth |-> d,
                    chunk |-> Append(ck, OctValue(Slice(c, k + 1, j)))]
          [] br = "other" ->
               [i |-> k + 2, depth |-> d, chunk |-> Append(ck, At(c, k + 1))]
          [] br = "nest" ->
               [i |-> k + 1, depth |-> d + 1, chunk |-> Append(ck, ch)]
          [] br = "close" ->
               [i |-> k + 1, depth |-> d - 1, chunk |-> CloseChunk(d, ck, ch)]
          [] OTHER ->
               [i |-> k + 1, depth |-> d, chunk |-> Append(ck, ch)]

\* The inner loop's condition.
InToken(c, k, d) == k < Len(c) /\ d > 0

\* The whole generator, as the list of the tokens it yields: the outer loop from
\* index k with no token open (d = 0), or the inner loop with chunk ck (d > 0).
RECURSIVE Scan(_, _, _, _, _)
Scan(c, k, d, ck, out) ==
    IF d > 0 /\ InToken(c, k, d)
    THEN LET r == InnerStep(c, k, d, ck)
         IN  IF r.depth = 0 THEN Scan(c, r.i, 0, <<>>, Append(out, r.chunk))
             ELSE Scan(c, r.i, r.depth, r.chunk, out)
    ELSE IF d > 0 THEN Scan(c, k, 0, <<>>, Append(out, ck))
    ELSE IF k >= Len(c) THEN out
    ELSE IF At(c, k) # LPAREN THEN Scan(c, k + 1, 0, <<>>, out)
    ELSE Scan(c, k + 1, 1, <<>>, out)

_strings_from_stream(c) == Scan(c, 0, 0, <<>>, <<>>)

-----------------------------------------------------------------------------
(* extract_answer, clean_answer *)

\* The index of the first character at or after k that is not whitespace
\* (len(s) when there is none): where a greedy \s* that starts at k ends.
RECURSIVE SkipSpaces(_, _)
SkipSpaces(s, k) ==
    IF k < Len(s) /\ IsSpace(At(s, k)) THEN SkipSpaces(s, k + 1) ELSE k

\* The end of the run of digits that starts at k: where a greedy \d* ends.
RECURSIVE SkipDigits(_, _)
SkipDigits(s, k) ==
    IF k < Len(s) /\ IsDigit(At(s, k)) THEN SkipDigits(s, k + 1) ELSE k

\* text.rfind(marker): the index of the last occurrence, -1 when there is none.
RFind(text, marker) ==
    LET at == {k \in 0..(Len(text) - 1) : At(text, k) = marker}
    IN  IF at = {} THEN -1 ELSE Max(at)

\* The value extract_answer returns for "no answer" (Python's None), as a text
\* that no text equals.
NoAnswer == <<None>>

\* As AfterLast, with find in place of rfind: the first occurrence.
AfterFirst(text, marker) ==
    LET pos == Min({k \in 0..(Len(text) - 1) : At(text, k) = marker})
        trailing == Strip(Slice(text, pos + 1, Len(text)))
    IN  IF trailing # <<>> THEN trailing ELSE NoAnswer

\* Lines 197-202 for one marker known to occur in text.
AfterLast(text, marker) ==
    LET pos == RFind(text, marker)
        trailing == Strip(Slice(text, pos + 1, Len(text)))
    IN  IF trailing # <<>> THEN trailing ELSE NoAnswer

\* extract_answer: the loop tries "?" first and returns at the first marker
\* that occurs in the text.
extract_answer(seg) ==
    LET text == Strip(seg)
    IN  IF text = <<>> THEN NoAnswer
        ELSE IF RFind(text, QMARK) >= 0 THEN AfterLast(text, QMARK)
        ELSE IF RFind(text, BANG) >= 0 THEN AfterLast(text, BANG)
        ELSE text

\* The ASCII lower-case form of a character (the patterns' IGNORECASE).
Lower(c) == IF Ord("A") <= c /\ c <= Ord("Z") THEN c + (Ord("a") - Ord("A")) ELSE c

\* Whether the literal lit occurs in s at index k, letter case ignored.
LitAt(s, k, lit) ==
    /\ k + Len(lit) <= Len(s)
    /\ \A j \in 1..Len(lit) : Lower(At(s, k + j - 1)) = Lower(lit[j])

NoteWord == Str(<<"(", "n", "o", "t", "e", ":">>)

\* Whether NOTE_PATTERN, \|\s*\(note:.* , matches at index k.
NoteAt(s, k) ==
    /\ k < Len(s) /\ At(s, k) = PIPE
    /\ LitAt(s, SkipSpaces(s, k + 1), NoteWord)

\* NOTE_PATTERN.split(s)[0]: the text before the first match.
BeforeNote(s) ==
    LET at == {k \in 0..(Len(s) - 1) : NoteAt(s, k)}
    IN  IF at = {} THEN s ELSE Slice(s, 0, Min(at))

\* As RStripPipes, with the trailing "|" kept.
KeepPipes(str) == str

\* s.rstrip("|")
RECURSIVE RStripPipes(_)
RStripPipes(s) ==
    IF s # <<>> /\ s[Len(s)] = PIPE THEN RStripPipes(SubSeq(s, 1, Len(s) - 1)) ELSE s

\* re.sub(r"\s*X\s*", " X ", s) for X = "/" (after = " ") and
\* re.sub(r"\s*X\s*", "X ", s) for X = "," : lead is the replacement's text
\* before X.  From index k: a match starts at k when the whitespace run at k
\* ends at X; it takes the whitespace after X too.
RECURSIVE SubDelim(_, _, _, _)
SubDelim(s, k, x, lead) ==
    IF k >= Len(s) THEN <<>>
    ELSE LET e == SkipSpaces(s, k)
         IN  IF e < Len(s) /\ At(s, e) = x
             THEN lead \o <<x, SPACE>> \o SubDelim(s, SkipSpaces(s, e + 1), x, lead)
             ELSE <<At(s, k)>> \o SubDelim(s, k + 1, x, lead)

\* As SubDigitComma, with the digit groups left apart.
KeepCommaSpaces(s, k) == Slice(s, k, Len(s))

\* re.sub(r"(?<=\d), (?=\d)", ",", s) from index k.
RECURSIVE SubDigitComma(_, _)
SubDigitComma(s, k) ==
    IF k >= Len(s) THEN <<>>
    ELSE IF /\ At(s, k) = COMMA
            /\ k + 2 < Len(s) /\ At(s, k + 1) = SPACE /\ IsDigit(At(s, k + 2))
            /\ k >= 1 /\ IsDigit(At(s, k - 1))
         THEN <<COMMA>> \o SubDigitComma(s, k + 2)
         ELSE <<At(s, k)>> \o SubDigitComma(s, k + 1)

\* re.sub(r"\s{n,}", " ", s) from index k: a run of at least n whitespace
\* characters becomes one space.
RECURSIVE SubSpaces(_, _, _)
SubSpaces(s, k, n) ==
    IF k >= Len(s) THEN <<>>
    ELSE LET e == SkipSpaces(s, k)
         IN  IF e - k >= n THEN <<SPACE>> \o SubSpaces(s, e, n)
             ELSE <<At(s, k)>> \o SubSpaces(s, k + 1, n)

\* clean_answer, lines 210-216.
clean_answer(ans) ==
    LET a1 == BeforeNote(Strip(ans))
        a2 == Strip(RStripPipes(a1))
        a3 == SubDelim(a2, 0, SLASH, <<SPACE>>)
        a4 == SubDelim(a3, 0, COMMA, <<>>)
        a5 == SubDigitComma(a4, 0)
        a6 == SubSpaces(a5, 0, 2)
    IN  Strip(a6)

-----------------------------------------------------------------------------
(* _parse_questions *)

\* Whether (\d+)\.\s+ matches at index k: a digit at k, and the run of digits
\* from k is followed by "." and at least one whitespace character.
MarkerAt(s, k) ==
    /\ k < Len(s) /\ IsDigit(At(s, k))
    /\ LET e == SkipDigits(s, k)
       IN  e + 1 < Len(s) /\ At(s, e) = DOT /\ IsSpace(At(s, e + 1))

\* Whether $ matches at index k (no MULTILINE): at the end, or before a final
\* line feed.
EndAt(s, k) == k = Len(s) \/ (k = Len(s) - 1 /\ At(s, k) = LF)

\* The lookahead of question_pattern, (?=\d+\.\s+|$).
FragmentEndAt(s, k) == MarkerAt(s, k) \/ EndAt(s, k)

\* The first index at or after k where the pattern matches, Len(s) + 1 when
\* there is none: where a search from k finds it.
FirstMarker(s, k) ==
    LET at == {j \in k..Len(s) : MarkerAt(s, j)}
    IN  IF at = {} THEN Len(s) + 1 ELSE Min(at)

\* The first index at or after k where the lookahead holds: where the lazy
\* (.*?) that starts at k ends.
FirstFragmentEnd(s, k) ==
    LET at == {j \in k..Len(s) : FragmentEndAt(s, j)}
    IN  IF at = {} THEN Len(s) + 1 ELSE Min(at)

\* question_pattern.findall(body) from index k: the (number_text, fragment)
\* pairs of the non-overlapping matches, leftmost first.
RECURSIVE FindAll(_, _)
FindAll(s, k) ==
    LET p == FirstMarker(s, k)
    IN  IF p > Len(s) THEN <<>>
        ELSE LET e == SkipDigits(s, p)
                 w == SkipSpaces(s, e + 1)
                 q == FirstFragmentEnd(s, w)
             IN  <<  <<Slice(s, p, e), Slice(s, w, q)>>  >> \o FindAll(s, q)

\* As NumberingBreaks, with the comparison turned round: a restart ends the loop.
NumberingBreaksBelow(expected, number) ==
    expected # None /\ number # expected /\ number < expected

\* As NumberingBreaks, with the break left out.
NumberingNeverBreaks(expected, number) == FALSE

\* Lines 171-173: the numbering check that ends the loop.
NumberingBreaks(expected, number) ==
    expected # None /\ number # expected /\ number > expected

\* Lines 169-174: expected_number after the numbering check, when it passes.
Resync(expected, number) ==
    IF expected = None THEN number
    ELSE IF number # expected THEN number
    ELSE expected

\* Which path one iteration of the loop takes for match m.
PQBranch(m, expected) ==
    LET fragment == Strip(m[2])
    IN  IF fragment = <<>> THEN "empty"
        ELSE IF NumberingBreaks(expected, ParseInt(m[1])) THEN "break"
        ELSE IF extract_answer(fragment) = NoAnswer THEN "noanswer"
        ELSE "append"

\* One iteration of the loop, lines 164-180: expected_number and entries after.
PQStep(m, expected, ents) ==
    LET br == PQBranch(m, expected)
        number == ParseInt(m[1])
    IN  CASE br = "noanswer" ->
               [expected_number |-> Resync(expected, number), entries |-> ents]
          [] br = "append" ->
               [expected_number |-> number + 1,
                entries |-> Append(ents,
                    <<m[1], clean_answer(extract_answer(Strip(m[2])))>>)]
          [] OTHER ->
               [expected_number |-> expected, entries |-> ents]

\* The loop from match k (0-based) on.
RECURSIVE PQLoop(_, _, _, _)
PQLoop(ms, k, expected, ents) ==
    IF k >= Len(ms) \/ PQBranch(At(ms, k), expected) = "break" THEN ents
    ELSE LET r == PQStep(At(ms, k), expected, ents)
         IN  PQLoop(ms, k + 1, r.expected_number, r.entries)

\* _parse_questions(body)
_parse_questions(b) == PQLoop(FindAll(b, 0), 0, None, <<>>)

-----------------------------------------------------------------------------
(* _is_mostly_printable, extract_text *)

\* 32 <= ord(ch) <= 126 or ch in "\t\r\n"
IsPrintable(c) == (SPACE <= c /\ c <= Ord("~")) \/ c \in {TAB, CR, LF}

\* The sum at line 103.
PrintableCount(tok) == Cardinality({k \in 1..Len(tok) : IsPrintable(tok[k])})

\* int(len(token) * 0.8): int() truncates.
Threshold(n) == (n * 8) \div 10

\* _is_mostly_printable(token)
_is_mostly_printable(tok) ==
    /\ tok # <<>>
    /\ \/ PrintableCount(tok) >= Threshold(Len(tok))
       \/ PrintableCount(tok) = Len(tok)

\* Line 111: the tokens that pass the filter, in order.
RECURSIVE FilterTokens(_)
FilterTokens(ts) ==
    IF ts = <<>> THEN <<>>
    ELSE IF _is_mostly_printable(Head(ts)) THEN <<Head(ts)>> \o FilterTokens(Tail(ts))
    ELSE FilterTokens(Tail(ts))

\* As OnlyPrintable, with every character kept.
KeepEveryChar(str) == str

\* "".join(ch for ch in combined if ...), lines 113-115.
RECURSIVE OnlyPrintable(_)
OnlyPrintable(str) ==
    IF str = <<>> THEN <<>>
    ELSE IF IsPrintable(Head(str)) THEN <<Head(str)>> \o OnlyPrintable(Tail(str))
    ELSE OnlyPrintable(Tail(str))

LocaleMarker == Str(<<"e", "n", "-", "U", "S">>)

\* Whether the literal lit occurs in str at index k, letter case kept.
ExactAt(str, k, lit) ==
    /\ k + Len(lit) <= Len(str)
    /\ \A j \in 1..Len(lit) : At(str, k + j - 1) = lit[j]

\* As ReplaceBySpace, with each occurrence removed instead of replaced.
RECURSIVE ReplaceByNothing(_, _, _)
ReplaceByNothing(str, k, old) ==
    IF k >= Len(str) THEN <<>>
    ELSE IF ExactAt(str, k, old) THEN ReplaceByNothing(str, k + Len(old), old)
    ELSE <<At(str, k)>> \o ReplaceByNothing(str, k + 1, old)

\* str.replace(old, " ") from index k: non-overlapping, leftmost first.
RECURSIVE ReplaceBySpace(_, _, _)
ReplaceBySpace(str, k, old) ==
    IF k >= Len(str) THEN <<>>
    ELSE IF ExactAt(str, k, old) THEN <<SPACE>> \o ReplaceBySpace(str, k + Len(old), old)
    ELSE <<At(str, k)>> \o ReplaceBySpace(str, k + 1, old)

\* Lines 112-119 on the tokens that passed the filter.
SanitizeStrings(strs) ==
    LET combined == Concat(strs)
        s1 == OnlyPrintable(combined)
        s2 == ReplaceBySpace(s1, 0, LocaleMarker)
        s3 == ReplaceBySpace(ReplaceBySpace(s2, 0, <<CR>>), 0, <<LF>>)
        s4 == SubSpaces(s3, 0, 1)
    IN  Strip(s4)

\* extract_text on the tokens read_stream_strings yields.
extract_text(ts) == SanitizeStrings(FilterTokens(ts))

-----------------------------------------------------------------------------
(* parse_rounds, main *)

\* The regex class \w, for ASCII (the text parse_rounds is given is sanitized).
IsWord(c) ==
    \/ IsDigit(c)
    \/ (Ord("A") <= c /\ c <= Ord("Z"))
    \/ (Ord("a") <= c /\ c <= Ord("z"))
    \/ c = Ord("_")

RoundWord == Str(<<"R", "o", "u", "n", "d">>)

TiebreakersWord == Str(<<"T", "i", "e", "b", "r", "e", "a", "k", "e", "r", "s">>)

\* Where Round\s+\d+: ends when it matches at index k, -1 when it does not.
RoundHeadEnd(t, k) ==
    IF ~LitAt(t, k, RoundWord) THEN -1
    ELSE LET a == k + Len(RoundWord)
             w == SkipSpaces(t, a)
             d == SkipDigits(t, w)
         IN  IF w > a /\ d > w /\ d < Len(t) /\ At(t, d) = COLON THEN d + 1 ELSE -1

\* Whether Tiebreakers\b matches at index k.
TiebreakersAt(t, k) ==
    /\ LitAt(t, k, TiebreakersWord)
    /\ LET e == k + Len(TiebreakersWord)
       IN  e = Len(t) \/ ~IsWord(At(t, e))

\* The lookahead of round_pattern, (?=Round\s+\d+:|Tiebreakers\b|$).
SectionEndAt(t, k) == RoundHeadEnd(t, k) >= 0 \/ TiebreakersAt(t, k) \/ EndAt(t, k)

\* round_pattern.finditer(text) from index k: group 1 of each match.
RECURSIVE RoundSections(_, _)
RoundSections(t, k) ==
    LET starts == {j \in k..(Len(t) - 1) : RoundHeadEnd(t, j) >= 0}
    IN  IF starts = {} THEN <<>>
        ELSE LET p == Min(starts)
                 w == SkipSpaces(t, RoundHeadEnd(t, p))
                 q == Min({j \in w..Len(t) : SectionEndAt(t, j)})
             IN  <<Slice(t, p, q)>> \o RoundSections(t, q)

\* re.search(r"\b\d+\.", section).start(), -1 when there is no match.
QuestionStart(sec) ==
    LET at == {k \in 0..(Len(sec) - 1) :
                  /\ IsDigit(At(sec, k))
                  /\ (k = 0 \/ ~IsWord(At(sec, k - 1)))
                  /\ LET e == SkipDigits(sec, k)
                     IN  e < Len(sec) /\ At(sec, e) = DOT}
    IN  IF at = {} THEN -1 ELSE Min(at)

\* Lines 131-140 for one match: the rounds with this section's round added.
AddRound(rs, group) ==
    LET section == Strip(group)
        start == QuestionStart(section)
    IN  IF start < 0 THEN rs
        ELSE LET round_name == Strip(Slice(section, 0, start))
                 ents == _parse_questions(Strip(Slice(section, start, Len(section))))
             IN  IF ents # <<>> THEN Append(rs, <<round_name, ents>>) ELSE rs

\* The loop of lines 130-140 over the matches.
RECURSIVE AddRounds(_, _)
AddRounds(rs, groups) ==
    IF groups = <<>> THEN rs
    ELSE AddRounds(AddRound(rs, Head(groups)), Tail(groups))

\* Lines 143-151: the tiebreakers, after the rounds.
AddTiebreakers(rs, t) ==
    LET at == {k \in 0..(Len(t) - 1) :
                  (k = 0 \/ ~IsWord(At(t, k - 1))) /\ TiebreakersAt(t, k)}
    IN  IF at = {} THEN rs
        ELSE LET section == Strip(Slice(t, Min(at) + Len(TiebreakersWord), Len(t)))
                 start == QuestionStart(section)
             IN  IF start < 0 THEN rs
                 ELSE LET ents == _parse_questions(Strip(Slice(section, start, Len(section))))
                      IN  IF ents # <<>> THEN Append(rs, <<TiebreakersWord, ents>>) ELSE rs

\* As parse_rounds, with the tiebreakers handled before the numbered rounds.
TiebreakersFirst(t) == AddRounds(AddTiebreakers(<<>>, t), RoundSections(t, 0))

\* parse_rounds(text)
parse_rounds(t) == AddTiebreakers(AddRounds(<<>>, RoundSections(t, 0)), t)

\* The status parser.error exits with (argparse), and main's return value.
ExitError == 2

ExitOk == 0

\* Lines 258-268: the status main ends with for the rounds it parsed.
ExitStatus(rs) == IF rs = <<>> THEN ExitError ELSE ExitOk

\* The variables of the other functions, at rest.
IdleRead == data = <<>> /\ match_end = 0

IdleTok == content = <<>> /\ i = 0 /\ depth = 0 /\ chunk = <<>> /\ tokens = <<>>

IdlePQ ==
    /\ body = <<>> /\ matches = <<>> /\ mi = 0
    /\ expected_number = None /\ entries = <<>>

IdleEA == segment = <<>> /\ answer = NoAnswer

IdleTxt == strings = <<>> /\ sanitized = <<>>

IdleDoc == rounds = <<>> /\ exit = None

\* The longest block the tokenizer is run on.
MaxContentLen == 5

\* The characters of those blocks: the parentheses, the backslash, a letter
\* that is a named escape, an octal digit and a digit that is not octal.
TokAlphabet == {LPAREN, RPAREN, BACKSLASH, Ord("n"), Ord("1"), Ord("9")}

\* The blocks of the specification's examples: (\101), (\9), (a(b)c) and the
\* escapes \n \t \( \) \\ in one token.
TokExamples ==
    { Str(<<"(", "\\", "1", "0", "1", ")">>),
      Str(<<"(", "\\", "9", ")">>),
      Str(<<"(", "a", "(", "b", ")", "c", ")">>),
      Str(<<"(", "\\", "n", "\\", "t", "\\", "(", "\\", ")", "\\", "\\", ")">>) }

\* All texts over alphabet A of length at most n.
Texts(A, n) == UNION {[1..m -> A] : m \in 0..n}

\* The blocks: every text of at most MaxContentLen characters, alone and after
\* an opening parenthesis.
TokBlocks ==
    Texts(TokAlphabet, MaxContentLen)
        \cup {<<LPAREN>> \o t : t \in Texts(TokAlphabet, MaxContentLen)}
        \cup TokExamples

InitTok ==
    /\ content \in TokBlocks
    /\ i = 0 /\ depth = 0 /\ chunk = <<>> /\ tokens = <<>>
    /\ IdleRead /\ IdlePQ /\ IdleEA /\ IdleTxt /\ IdleDoc
    /\ pc = "outer"

TokRest == UNCHANGED <<content, rdVars, pqVars, eaVars, txtVars, docVars>>

\* Outer loop, lines 42-45: a character that opens no token is skipped.
SkipChar ==
    /\ pc = "outer" /\ i < Len(content) /\ At(content, i) # LPAREN
    /\ i' = i + 1
    /\ UNCHANGED <<depth, chunk, tokens, pc>>
    /\ TokRest

\* Outer loop, lines 47-49: "(" opens a token.
OpenToken ==
    /\ pc = "outer" /\ i < Len(content) /\ At(content, i) = LPAREN
    /\ i' = i + 1 /\ depth' = 1 /\ chunk' = <<>>
    /\ pc' = "inner"
    /\ UNCHANGED tokens
    /\ TokRest

\* The inner loop is at a character that takes branch br.
InnerAt(br) ==
    /\ pc = "inner" /\ InToken(content, i, depth)
    /\ InnerBranch(content, i) = br

\* The iteration's effect.
InnerApply ==
    /\ LET r == InnerStep(content, i, depth, chunk)
       IN  i' = r.i /\ depth' = r.depth /\ chunk' = r.chunk
    /\ UNCHANGED <<tokens, pc>>
    /\ TokRest

\* Lines 54-67: backslash and one of n r t b f ( ) \ .
EscapeNamed ==
    /\ InnerAt("named")
    /\ InnerApply

\* Lines 68-77: backslash and a run of octal digits.
EscapeOctal ==
    /\ InnerAt("octal")
    /\ InnerApply

\* Lines 78-80: backslash and any other character.
EscapeOther ==
    /\ InnerAt("other")
    /\ InnerApply

\* Lines 81-85: an unescaped "(".
NestOpen ==
    /\ InnerAt("nest")
    /\ InnerApply

\* Lines 86-92: an unescaped ")".
CloseParen ==
    /\ InnerAt("close")
    /\ InnerApply

\* Lines 93-94: any other character.
CopyChar ==
    /\ InnerAt("copy")
    /\ InnerApply

\* As YieldToken, with a token that is still open at the end of the block
\* dropped instead of yielded.
YieldClosedOnly ==
    /\ pc = "inner" /\ ~InToken(content, i, depth)
    /\ tokens' = IF depth = 0 THEN Append(tokens, chunk) ELSE tokens
    /\ pc' = "outer"
    /\ UNCHANGED <<i, depth, chunk>>
    /\ TokRest

\* Line 95: the inner loop is over (the token closed, or the block ended).
YieldToken ==
    /\ pc = "inner" /\ ~InToken(content, i, depth)
    /\ tokens' = Append(tokens, chunk)
    /\ pc' = "outer"
    /\ UNCHANGED <<i, depth, chunk>>
    /\ TokRest

\* The outer loop is over: the generator is exhausted.
TokReturn ==
    /\ pc = "outer" /\ i >= Len(content)
    /\ pc' = "done"
    /\ UNCHANGED <<i, depth, chunk, tokens>>
    /\ TokRest

NextTok ==
    \/ SkipChar
    \/ OpenToken
    \/ EscapeNamed
    \/ EscapeOctal
    \/ EscapeOther
    \/ NestOpen
    \/ CloseParen
    \/ CopyChar
    \/ YieldToken
    \/ TokReturn

SpecTok == InitTok /\ [][NextTok]_vars

\* The loops run to their end: a step that is possible is taken.
SpecTokFair == SpecTok /\ WF_vars(NextTok)

\* The generator taken step by step yields what the function yields.
TokStepwiseAgrees == pc = "done" => tokens = _strings_from_stream(content)

-----------------------------------------------------------------------------
(* _parse_questions, one loop iteration per step *)

\* The most numbered markers in a generated body.
MaxMarkers == 3

\* The number texts and the fragments the generated bodies are made of: an
\* empty fragment, a question with no answer, with an answer, and with an
\* answer that is only the "|" terminator.
PQNumbers == {Str(<<"1">>), Str(<<"2">>), Str(<<"3">>)}

PQFragments ==
    { <<>>,
      Str(<<"Q", "?", " ">>),
      Str(<<"Q", "?", " ", "A", " ">>),
      Str(<<"Q", "?", " ", "|", " ">>) }

PQItems == {n \o Str(<<".", " ">>) \o f : n \in PQNumbers, f \in PQFragments}

\* The bodies of the specification's examples.
SkipBody ==
    Str(<<"1", ".", " ", "Q", "1", "?", " ", "A", "1", " ",
          "2", ".", " ", "Q", "2", "?", " ",
          "3", ".", " ", "Q", "3", "?", " ", "A", "3">>)

RestartBody ==
    Str(<<"1", ".", " ", "Q", "1", "?", " ", "A", "1", " ",
          "2", ".", " ", "Q", "2", "?", " ", "A", "2", " ",
          "1", ".", " ", "B", "o", "i", "l", "e", "r", "p", "l", "a", "t", "e", "?",
          " ", "X">>)

MonotoneBody ==
    Str(<<"1", ".", " ", "Q", "1", "?", " ", "A", "1", " ",
          "2", ".", " ", "Q", "2", "?", " ", "A", "2", " ",
          "3", ".", " ", "Q", "3", "?", " ", "A", "3">>)

PQBodies ==
    {Concat(ts) : ts \in UNION {[1..m -> PQItems] : m \in 0..MaxMarkers}}
        \cup {SkipBody, RestartBody, MonotoneBody}

InitPQ ==
    /\ body \in PQBodies
    /\ matches = <<>> /\ mi = 0 /\ expected_number = None /\ entries = <<>>
    /\ IdleRead /\ IdleTok /\ IdleEA /\ IdleTxt /\ IdleDoc
    /\ pc = "call"

PQRest == UNCHANGED <<body, rdVars, tokVars, eaVars, txtVars, docVars>>

\* Lines 159-163: the matches of question_pattern in the body.
PQFindAll ==
    /\ pc = "call"
    /\ matches' = FindAll(body, 0)
    /\ mi' = 0 /\ expected_number' = None /\ entries' = <<>>
    /\ pc' = "loop"
    /\ PQRest

\* The loop is at a match whose iteration takes path br.
PQAt(br) ==
    /\ pc = "loop" /\ mi < Len(matches)
    /\ PQBranch(At(matches, mi), expected_number) = br

\* The iteration's effect, then on to the next match.
PQContinue ==
    /\ LET r == PQStep(At(matches, mi), expected_number, entries)
       IN  expected_number' = r.expected_number /\ entries' = r.entries
    /\ mi' = mi + 1
    /\ UNCHANGED <<matches, pc>>
    /\ PQRest

\* Lines 165-166: an empty fragment, continue.
PQSkipEmpty ==
    /\ PQAt("empty")
    /\ PQContinue

\* Lines 177-178: no answer, continue.
PQNoAnswer ==
    /\ PQAt("noanswer")
    /\ PQContinue

\* Lines 179-180: the entry is appended.
PQAppend ==
    /\ PQAt("append")
    /\ PQContinue

\* Lines 172-173: break.
PQBreak ==
    /\ PQAt("break")
    /\ pc' = "done"
    /\ UNCHANGED <<matches, mi, expected_number, entries>>
    /\ PQRest

\* Line 182: the matches are exhausted.
PQReturn ==
    /\ pc = "loop" /\ mi >= Len(matches)
    /\ pc' = "done"
    /\ UNCHANGED <<matches, mi, expected_number, entries>>
    /\ PQRest

NextPQ ==
    \/ PQFindAll
    \/ PQSkipEmpty
    \/ PQNoAnswer
    \/ PQAppend
    \/ PQBreak
    \/ PQReturn

SpecPQ == InitPQ /\ [][NextPQ]_vars

\* The loop taken step by step returns what the function returns.
PQStepwiseAgrees == pc = "done" => entries = _parse_questions(body)

-----------------------------------------------------------------------------
(* extract_answer, one call per behaviour *)

\* The longest segment extract_answer is called on.
MaxSegmentLen == 5

\* The characters of those segments: both marks, a space and a letter.
EAAlphabet == {SPACE, QMARK, BANG, Ord("A")}

InitEA ==
    /\ segment \in Texts(EAAlphabet, MaxSegmentLen)
    /\ answer = NoAnswer
    /\ IdleRead /\ IdleTok /\ IdlePQ /\ IdleTxt /\ IdleDoc
    /\ pc = "call"

ExtractAnswerCall ==
    /\ pc = "call"
    /\ answer' = extract_answer(segment)
    /\ pc' = "done"
    /\ UNCHANGED <<segment, rdVars, tokVars, pqVars, txtVars, docVars>>

NextEA == ExtractAnswerCall

SpecEA == InitEA /\ [][NextEA]_vars

-----------------------------------------------------------------------------
(* extract_text on a list of tokens, one call per behaviour *)

\* The longest token extract_text is given alone.
MaxTokenLen == 5

\* The longest token of a pair.
MaxPairTokenLen == 2

\* The characters of those tokens: a letter, a tab, and the backspace (not
\* printable) that the escape \b decodes to.
TxtAlphabet == {Ord("A"), TAB, TAB - 1}

\* The most pieces in a token made of pieces.
MaxTokenPieces == 4

\* The pieces of those tokens: the locale marker whole and in parts, the
\* whitespace the sanitizer rewrites, a letter, and two characters that octal
\* escapes decode to above code 126 (\377, and \240 which is whitespace).
TokenPieces ==
    { Str(<<"e", "n", "-">>), Str(<<"U", "S">>), LocaleMarker,
      <<SPACE>>, <<CR>>, <<LF>>, <<TAB>>, <<Ord("A")>>,
      <<OctValue(Str(<<"3", "7", "7">>))>>, <<OctValue(Str(<<"2", "4", "0">>))>> }

PieceTokens == {Concat(ps) : ps \in UNION {[1..m -> TokenPieces] : m \in 0..MaxTokenPieces}}

TokenLists ==
    {<<t>> : t \in Texts(TxtAlphabet, MaxTokenLen)}
        \cup {<<t, u>> : t \in Texts(TxtAlphabet, MaxPairTokenLen),
                         u \in Texts(TxtAlphabet, MaxPairTokenLen)}
        \cup {<<t>> : t \in PieceTokens}

InitText ==
    /\ content = <<>> /\ i = 0 /\ depth = 0 /\ chunk = <<>>
    /\ tokens \in TokenLists
    /\ IdleRead /\ IdlePQ /\ IdleEA /\ IdleTxt /\ IdleDoc
    /\ pc = "text"

\* Lines 111-119: the filter and the sanitizing steps.
ExtractTextCall ==
    /\ pc = "text"
    /\ strings' = FilterTokens(tokens)
    /\ sanitized' = extract_text(tokens)
    /\ pc' = "parse"
    /\ UNCHANGED <<rdVars, tokVars, pqVars, eaVars, docVars>>

NextText == ExtractTextCall

SpecText == InitText /\ [][NextText]_vars

-----------------------------------------------------------------------------
(* The pipeline of main on a document of one decompressed block *)

\* The most literal strings in a generated block.
MaxPieces == 3

\* The texts of the literal strings the generated blocks are made of.
DocPieces ==
    { Str(<<"R", "o", "u", "n", "d", " ", "1", ":", " ", "W", " ">>),
      Str(<<"R", "o", "u", "n", "d", " ", "2", ":", " ", "V", " ">>),
      Str(<<"1", ".", " ", "Q", "?", " ", "A", " ">>),
      Str(<<"2", ".", " ", "Q", "?", " ", "B", " ">>),
      Str(<<"1", ".", " ", "Q", "?", " ">>),
      Str(<<"T", "i", "e", "b", "r", "e", "a", "k", "e", "r", "s", " ">>),
      Str(<<"x", " ">>) }

\* (piece)
Literal(piece) == <<LPAREN>> \o piece \o <<RPAREN>>

\* The block of the specification's end-to-end example.
EndToEndText ==
    Str(<<"R", "o", "u", "n", "d", " ", "1", ":", " ", "W", "a", "r", "m", "u", "p", " ",
          "1", ".", " ", "W", "h", "a", "t", " ", "i", "s", " ", "2", "+", "2", "?", " ",
          "4", "!", " ",
          "2", ".", " ", "C", "a", "p", "i", "t", "a", "l", " ", "o", "f", " ",
          "F", "r", "a", "n", "c", "e", "?", " ", "P", "a", "r", "i", "s", "|">>)

EndToEndBlock == Literal(EndToEndText)

Documents ==
    {Concat([k \in 1..Len(ps) |-> Literal(ps[k])]) :
        ps \in UNION {[1..m -> DocPieces] : m \in 0..MaxPieces}}
        \cup {EndToEndBlock}

Init ==
    /\ content \in Documents
    /\ i = 0 /\ depth = 0 /\ chunk = <<>> /\ tokens = <<>>
    /\ IdleRead /\ IdlePQ /\ IdleEA /\ IdleTxt /\ IdleDoc
    /\ pc = "read"

\* Line 34 for the block: the tokens of the block.
read_stream_strings ==
    /\ pc = "read"
    /\ tokens' = _strings_from_stream(content)
    /\ pc' = "text"
    /\ UNCHANGED <<rdVars, content, i, depth, chunk, pqVars, eaVars, txtVars, docVars>>

\* Line 258.
ParseRoundsCall ==
    /\ pc = "parse"
    /\ rounds' = parse_rounds(sanitized)
    /\ pc' = "main"
    /\ UNCHANGED <<exit, rdVars, tokVars, pqVars, eaVars, txtVars>>

\* Lines 260-261: no rounds, parser.error.
MainNoRounds ==
    /\ pc = "main" /\ rounds = <<>>
    /\ exit' = ExitStatus(rounds)
    /\ pc' = "done"
    /\ UNCHANGED <<rounds, rdVars, tokVars, pqVars, eaVars, txtVars>>

\* Lines 263-268: the rubric is written.
MainWriteCsv ==
    /\ pc = "main" /\ rounds # <<>>
    /\ exit' = ExitStatus(rounds)
    /\ pc' = "done"
    /\ UNCHANGED <<rounds, rdVars, tokVars, pqVars, eaVars, txtVars>>

Next ==
    \/ read_stream_strings
    \/ ExtractTextCall
    \/ ParseRoundsCall
    \/ MainNoRounds
    \/ MainWriteCsv

Spec == Init /\ [][Next]_vars

-----------------------------------------------------------------------------
(* read_stream_strings: the scan for compressed streams, one match per step *)

StreamWord == Str(<<"s", "t", "r", "e", "a", "m">>)

EndstreamWord == Str(<<"e", "n", "d">>) \o StreamWord

\* Where the start delimiter stream\r?\n ends when it matches at index k of the
\* data, -1 when it does not.
StartDelimEnd(d, k) ==
    LET a == k + Len(StreamWord)
    IN  IF ~ExactAt(d, k, StreamWord) THEN -1
        ELSE IF ExactAt(d, a, <<CR, LF>>) THEN a + 2
        ELSE IF ExactAt(d, a, <<LF>>) THEN a + 1
        ELSE -1

\* The two forms of the end delimiter \r?\nendstream.
EndDelimCRLF == <<CR, LF>> \o EndstreamWord

EndDelimLF == <<LF>> \o EndstreamWord

\* Where the end delimiter ends when it matches at index p, -1 when it does
\* not.
EndDelimEnd(d, p) ==
    IF At(d, p) = CR /\ ExactAt(d, p, EndDelimCRLF) THEN p + Len(EndDelimCRLF)
    ELSE IF At(d, p) = LF /\ ExactAt(d, p, EndDelimLF) THEN p + Len(EndDelimLF)
    ELSE -1

\* The indices where group 1 can end for a match that starts at index s: none
\* when STREAM_PATTERN does not match at s.
GroupEnds(d, s) ==
    LET g == StartDelimEnd(d, s)
    IN  IF g < 0 THEN {} ELSE {p \in g..(Len(d) - 1) : EndDelimEnd(d, p) >= 0}

\* The next match of STREAM_PATTERN at or after index k: the leftmost start,
\* and the shortest group 1 (.*? is lazy); end is where finditer resumes.
SearchStream(d, k) ==
    LET starts == {s \in k..(Len(d) - 1) : At(d, s) = StreamWord[1] /\ GroupEnds(d, s) # {}}
    IN  IF starts = {} THEN [found |-> FALSE, group |-> <<>>, end |-> Len(d)]
        ELSE LET s == Min(starts)
                 p == Min(GroupEnds(d, s))
             IN  [found |-> TRUE,
                  group |-> Slice(d, StartDelimEnd(d, s), p),
                  end |-> EndDelimEnd(d, p)]

\* zlib.error.
ZlibError == <<None>>

\* The Adler-32 sums (a, b) of the bytes t, from (a, b).
RECURSIVE AdlerSums(_, _, _)
AdlerSums(t, a, b) ==
    IF t = <<>> THEN <<a, b>>
    ELSE LET a2 == (a + Head(t)) % 65521
         IN  AdlerSums(Tail(t), a2, (b + a2) % 65521)

\* The Adler-32 checksum of t as zlib writes it: four bytes, high byte first.
Adler32(t) ==
    LET r == AdlerSums(t, 1, 0)
    IN  <<r[2] \div 256, r[2] % 256, r[1] \div 256, r[1] % 256>>

\* zlib.decompress(raw_stream) for a zlib stream of one final stored block: the
\* 2-byte header (deflate, window <= 32K, check bits, no dictionary), the block
\* header, LEN and its complement, LEN bytes and the Adler-32 of those bytes;
\* bytes after the stream are ignored.  A stream cut short or with a wrong
\* header, length complement or checksum raises zlib.error.  (Streams with
\* compressed blocks are not modelled: the scan does not look inside them.)
zlib_decompress(raw) ==
    LET n == raw[4] + 256 * raw[5]
    IN  IF /\ Len(raw) >= 11
           /\ raw[1] % 16 = 8 /\ raw[1] \div 16 <= 7
           /\ (256 * raw[1] + raw[2]) % 31 = 0
           /\ (raw[2] \div 32) % 2 = 0
           /\ raw[3] % 8 = 1
           /\ raw[6] = 255 - raw[4] /\ raw[7] = 255 - raw[5]
           /\ Len(raw) >= 11 + n
           /\ SubSeq(raw, 8 + n, 11 + n) = Adler32(SubSeq(raw, 8, 7 + n))
        THEN SubSeq(raw, 8, 7 + n)
        ELSE ZlibError

\* bytes.decode("latin1"): byte b is the character chr(b).
Latin1(bytes) == [k \in 1..Len(bytes) |-> bytes[k]]

\* The most parts in a generated file.
MaxFileParts == 3

\* What zlib.compress(text, 0) writes: the stream of one stored block.
Stored(text) ==
    <<120, 1, 1, Len(text) % 256, Len(text) \div 256,
      255 - (Len(text) % 256), 255 - (Len(text) \div 256)>> \o text \o Adler32(text)

\* The payloads: streams that decompress (to a token, to a token and an open
\* token, to no token), and payloads that do not (a wrong checksum, a stream cut
\* short, text that was never compressed, nothing).
GoodPayloads ==
    { Stored(Str(<<"(", "A", ")">>)),
      Stored(Str(<<"(", "B", ")", "(", "C">>)),
      Stored(Str(<<"x">>)) }

BadPayloads ==
    { LET z == Stored(Str(<<"(", "D", ")">>))
      IN  SubSeq(z, 1, Len(z) - 1) \o <<(z[Len(z)] + 1) % 256>>,
      LET z == Stored(Str(<<"(", "E", ")">>))
      IN  SubSeq(z, 1, Len(z) - 1),
      Str(<<"(", "F", ")">>),
      <<>> }

\* stream LF payload LF endstream, and the same with CR LF.
Framed(p) == StreamWord \o <<LF>> \o p \o <<LF>> \o EndstreamWord

FramedCRLF(p) == StreamWord \o <<CR, LF>> \o p \o <<CR, LF>> \o EndstreamWord

\* The parts of the generated files: framed payloads, the text between two
\* objects, and a start delimiter that no end delimiter follows.
FileParts ==
    {Framed(p) : p \in GoodPayloads \cup BadPayloads}
        \cup {FramedCRLF(Stored(Str(<<"(", "G", ")">>)))}
        \cup {Str(<<"e", "n", "d", "o", "b", "j">>) \o <<LF>>, StreamWord \o <<LF>>}

Files ==
    {Concat(ps) : ps \in UNION {[1..m -> FileParts] : m \in 0..MaxFileParts}}

InitRead ==
    /\ data \in Files
    /\ match_end = 0
    /\ IdleTok /\ IdlePQ /\ IdleEA /\ IdleTxt /\ IdleDoc
    /\ pc = "scan"

\* The scan is at a match whose group 1 decompresses (ok) or does not.
ReadAt(ok) ==
    /\ pc = "scan"
    /\ LET m == SearchStream(data, match_end)
       IN  m.found /\ ((zlib_decompress(m.group) # ZlibError) <=> ok)

\* As ReadSkipBlock, with the scan given up at the block that fails.
ReadStopAtFailure ==
    /\ ReadAt(FALSE)
    /\ match_end' = Len(data)
    /\ UNCHANGED <<data, tokVars, pqVars, eaVars, txtVars, docVars, pc>>

\* Lines 30-33: decompression fails, continue with the next match.
ReadSkipBlock ==
    /\ ReadAt(FALSE)
    /\ match_end' = SearchStream(data, match_end).end
    /\ UNCHANGED <<data, tokVars, pqVars, eaVars, txtVars, docVars, pc>>

\* Lines 31 and 34: the block is decompressed and its tokens are yielded.
ReadYieldBlock ==
    /\ ReadAt(TRUE)
    /\ LET m == SearchStream(data, match_end)
           decompressed == zlib_decompress(m.group)
       IN  /\ match_end' = m.end
           /\ content' = Latin1(decompressed)
           /\ tokens' = tokens \o _strings_from_stream(Latin1(decompressed))
    /\ UNCHANGED <<data, i, depth, chunk, pqVars, eaVars, txtVars, docVars, pc>>

\* Line 28: no further match, the generator is exhausted.
ReadReturn ==
    /\ pc = "scan"
    /\ ~SearchStream(data, match_end).found
    /\ pc' = "done"
    /\ UNCHANGED <<rdVars, tokVars, pqVars, eaVars, txtVars, docVars>>

NextRead ==
    \/ ReadSkipBlock
    \/ ReadYieldBlock
    \/ ReadReturn

SpecRead == InitRead /\ [][NextRead]_vars

-----------------------------------------------------------------------------
(* clean_answer, one call per behaviour *)

\* The longest generated answer clean_answer is called on.
MaxAnswerLen == 6

\* The characters of those answers: both delimiters, a space, a digit and a
\* letter.
CAAlphabet == {COMMA, SLASH, SPACE, Ord("1"), Ord("A")}

\* The answer of the specification's example, and the same answer with other
\* spacing, a note and the "|" terminator.
NumericExample ==
    Str(<<"1", ",", "0", "0", "0", " ", "/", " ", "2", ",", "5", "0", "0">>)

NumericNoted ==
    Str(<<"1", " ", ",", "0", "0", "0", "/", "2", ",", " ", "5", "0", "0", "|",
          " ", "(", "N", "o", "t", "e", ":", " ", "x", ")">>)

RawAnswers == Texts(CAAlphabet, MaxAnswerLen) \cup {NumericExample, NumericNoted}

InitCA ==
    /\ answer \in RawAnswers
    /\ segment = <<>>
    /\ IdleRead /\ IdleTok /\ IdlePQ /\ IdleTxt /\ IdleDoc
    /\ pc = "clean"

\* Lines 210-216: answer is reassigned step by step and returned.
CleanAnswerCall ==
    /\ pc = "clean"
    /\ answer' = clean_answer(answer)
    /\ pc' = "done"
    /\ UNCHANGED <<segment, rdVars, tokVars, pqVars, txtVars, docVars>>

NextCA == CleanAnswerCall

SpecCA == InitCA /\ [][NextCA]_vars

-----------------------------------------------------------------------------
(* Properties of _parse_questions, checked under SpecPQ *)

\* The number of a match or of an entry.
NumberOf(e) == ParseInt(e[1])

\* Match m has a fragment from which an answer is extracted.
HasAnswer(m) == Strip(m[2]) # <<>> /\ extract_answer(Strip(m[2])) # NoAnswer

\* Match m is question text only: a fragment, and no answer in it.
QuestionOnly(m) == Strip(m[2]) # <<>> /\ extract_answer(Strip(m[2])) = NoAnswer

\* Some returned entry carries the number text of match m.
Emitted(m) == \E k \in 1..Len(entries) : entries[k][1] = m[1]

\* The body is three markers numbered n, n+1, n+2.
ThreeConsecutive ==
    /\ Len(matches) = 3
    /\ NumberOf(matches[2]) = NumberOf(matches[1]) + 1
    /\ NumberOf(matches[3]) = NumberOf(matches[1]) + 2

\* C1: in a body of three consecutive markers n, n+1, n+2 of which only n+1
\* has no extractable answer, the entries of n and of n+2 are both returned:
\* the dropped marker does not end the scan.
C1_DropKeepsScanning ==
    (/\ pc = "done"
     /\ ThreeConsecutive
     /\ HasAnswer(matches[1]) /\ QuestionOnly(matches[2]) /\ HasAnswer(matches[3]))
        => Emitted(matches[1]) /\ Emitted(matches[3])

\* The entries of the restart example, as the claim and as the code has them.
EntryA1 == <<Str(<<"1">>), Str(<<"A", "1">>)>>

EntryA2 == <<Str(<<"2">>), Str(<<"A", "2">>)>>

EntryX == <<Str(<<"1">>), Str(<<"X">>)>>

\* C2 as stated: for the body "1. Q1? A1 2. Q2? A2 1. Boilerplate? X" the
\* result is exactly the entries 1 and 2; the trailing "1." is not returned.
C2_RestartStops ==
    (pc = "done" /\ body = RestartBody) => entries = <<EntryA1, EntryA2>>

\* C2 as amended: the trailing "1." is below expected_number (3), so the
\* numbering is resynchronised and the entry is returned: the result is the
\* entries 1, 2, 1.  In general, in a body of three answered markers n, n+1, m
\* the third is returned exactly when m <= n + 2.
C2_RestartResyncs ==
    /\ (pc = "done" /\ body = RestartBody) => entries = <<EntryA1, EntryA2, EntryX>>
    /\ (/\ pc = "done" /\ Len(matches) = 3
        /\ \A k \in 1..3 : HasAnswer(matches[k])
        /\ NumberOf(matches[2]) = NumberOf(matches[1]) + 1)
           => (Len(entries) = 3 <=> NumberOf(matches[3]) <= NumberOf(matches[1]) + 2)

C2_Witness == pc = "done" /\ body = RestartBody /\ Len(entries) = 3

\* C6: every returned entry has a non-empty answer after clean_answer.
C6_AnswerNonEmpty ==
    pc = "done" => \A k \in 1..Len(entries) : entries[k][2] # <<>>

\* C7 as stated: the numbers of the returned entries, in output order, are
\* non-decreasing.
C7_NonDecreasing ==
    pc = "done" =>
        \A k \in 1..(Len(entries) - 1) : NumberOf(entries[k]) <= NumberOf(entries[k + 1])

\* C7 as amended: the numbers of the returned entries never skip forward: each
\* is at most its predecessor's number plus one (it may be lower, after a
\* resynchronisation).  It holds of the entries at every point of the loop.
C7_NoForwardSkip ==
    \A k \in 1..(Len(entries) - 1) : NumberOf(entries[k + 1]) <= NumberOf(entries[k]) + 1

C7_Witness ==
    /\ pc = "done" /\ Len(entries) = 3
    /\ NumberOf(entries[2]) = NumberOf(entries[1]) + 1
    /\ NumberOf(entries[3]) < NumberOf(entries[2])

-----------------------------------------------------------------------------
(* Properties of extract_answer, checked under SpecEA *)

\* The indices of text at which one of the characters cs stands.
Marks(text, cs) == {k \in 0..(Len(text) - 1) : At(text, k) \in cs}

\* The trimmed text after index pos, or no answer when it is empty.
Trailing(text, pos) ==
    LET t == Strip(Slice(text, pos + 1, Len(text)))
    IN  IF t = <<>> THEN NoAnswer ELSE t

\* The rule of C3: the text after the last "?" or "!", whichever comes last;
\* the whole trimmed fragment when it has neither (an empty fragment is taken
\* to have no answer, as in the code).
LastMarkRule(seg) ==
    LET text == Strip(seg)
        at == Marks(text, {QMARK, BANG})
    IN  IF text = <<>> THEN NoAnswer
        ELSE IF at # {} THEN Trailing(text, Max(at))
        ELSE text

\* C3 as stated: extract_answer agrees with the last-mark rule.
C3_LastOfEitherMark == pc = "done" => answer = LastMarkRule(segment)

\* C3 as amended: "?" takes precedence.  If the trimmed fragment contains "?",
\* the answer is the trimmed text after the last "?", even when a "!" comes
\* later; otherwise, if it contains "!", the trimmed text after the last "!";
\* no answer when that text is empty; with neither mark, the whole trimmed
\* fragment.
C3_QuestionMarkFirst ==
    pc = "done" =>
        LET text == Strip(segment)
            qs == Marks(text, {QMARK})
            bs == Marks(text, {BANG})
        IN  /\ (qs # {}) => answer = Trailing(text, Max(qs))
            /\ (qs = {} /\ bs # {}) => answer = Trailing(text, Max(bs))
            /\ (qs = {} /\ bs = {} /\ text # <<>>) => answer = text
            /\ (text = <<>>) => answer = NoAnswer

\* A "!" after the last "?" is part of the answer.
C3_Witness ==
    /\ pc = "done"
    /\ segment = <<Ord("A"), QMARK, SPACE, Ord("A"), BANG>>
    /\ answer = <<Ord("A"), BANG>>

-----------------------------------------------------------------------------
(* Properties of the pipeline, checked under Spec *)

RoundOneWarmup ==
    Str(<<"R", "o", "u", "n", "d", " ", "1", ":", " ", "W", "a", "r", "m", "u", "p">>)

EntryParis == <<Str(<<"2">>), Str(<<"P", "a", "r", "i", "s">>)>>

\* C4 as stated: the end-to-end example yields exactly one round, named
\* "Round 1: Warmup", with the entries ("1","4") and ("2","Paris").
C4_EndToEnd ==
    (pc = "done" /\ content = EndToEndBlock) =>
        rounds = << <<RoundOneWarmup, << <<Str(<<"1">>), Str(<<"4">>)>>, EntryParis >> >> >>

\* C4 as amended: the end-to-end example is tokenized to one token, sanitized
\* to the same text, and yields exactly one round, named "Round 1: Warmup",
\* with the entries ("1","4!") and ("2","Paris"): the "!" follows the last "?"
\* of its fragment and is part of the answer.
C4_EndToEndBang ==
    (pc = "done" /\ content = EndToEndBlock) =>
        /\ tokens = <<EndToEndText>>
        /\ sanitized = EndToEndText
        /\ rounds =
             << <<RoundOneWarmup, << <<Str(<<"1">>), Str(<<"4", "!">>)>>, EntryParis >> >> >>
        /\ exit = ExitOk

C4_Witness ==
    /\ pc = "done" /\ content = EndToEndBlock
    /\ Len(rounds) = 1 /\ Len(rounds[1][2]) = 2

\* The document has a "Round N:" section with a question-number marker.
HasMarkedRound(t) ==
    \E k \in 1..Len(RoundSections(t, 0)) : QuestionStart(Strip(RoundSections(t, 0)[k])) >= 0

\* What the caller is told about a document with no round at all.
NoRoundOutcome == <<parse_rounds(Str(<<"x">>)), ExitStatus(parse_rounds(Str(<<"x">>)))>>

\* C5: a document in which a round was found (a "Round N:" section with a
\* question-number marker), whatever its entries, is not reported to the
\* caller as a document with no round at all is.
C5_EmptyRoundDistinct ==
    (pc = "done" /\ HasMarkedRound(sanitized)) => <<rounds, exit>> # NoRoundOutcome

-----------------------------------------------------------------------------
(* Properties of the printable-token filter, checked under SpecText *)

\* At least 80% of the characters of the token are printable.
AtLeast80Percent(tok) == 10 * PrintableCount(tok) >= 8 * Len(tok)

\* C8: a non-empty token passes the filter if and only if at least 80% of its
\* characters are printable (which covers the tokens that are printable
\* throughout), and a token that fails contributes nothing to the document.
C8_EightyPercent ==
    (pc = "parse" /\ Len(tokens) = 1 /\ tokens[1] # <<>>) =>
        /\ (strings = tokens) <=> AtLeast80Percent(tokens[1])
        /\ ~AtLeast80Percent(tokens[1]) => sanitized = <<>>

-----------------------------------------------------------------------------
(* Properties of _strings_from_stream, checked under SpecTok *)

\* The text between the first and the last character of the block.
Inside(c) == SubSeq(c, 2, Len(c) - 1)

\* The block is "(" + t + ")" for a text t of printable characters with no
\* parenthesis and no backslash.
IsWrappedText(c) ==
    /\ Len(c) >= 2 /\ c[1] = LPAREN /\ c[Len(c)] = RPAREN
    /\ \A k \in 2..(Len(c) - 1) :
          /\ SPACE <= c[k] /\ c[k] <= Ord("~")
          /\ c[k] \notin {LPAREN, RPAREN, BACKSLASH}

\* C9: the tokenizer round-trip: "(" + t + ")" yields exactly the token t.
C9_RoundTrip ==
    (pc = "done" /\ IsWrappedText(content)) => tokens = <<Inside(content)>>

C9_Witness ==
    /\ pc = "done"
    /\ content = Str(<<"(", "n", "1", "9", ")">>)
    /\ tokens = <<Str(<<"n", "1", "9">>)>>

\* The character each named escape stands for.
NamedChar(c) ==
    CASE c = Ord("n") -> 10
      [] c = Ord("r") -> 13
      [] c = Ord("t") -> 9
      [] c = Ord("b") -> 8
      [] c = Ord("f") -> 12
      [] c = LPAREN -> LPAREN
      [] c = RPAREN -> RPAREN
      [] c = BACKSLASH -> BACKSLASH

\* The base-8 value of one to three octal digits.
OctalCode(ds) ==
    LET v(k) == ds[k] - ZERO
    IN  CASE Len(ds) = 1 -> v(1)
          [] Len(ds) = 2 -> 8 * v(1) + v(2)
          [] Len(ds) = 3 -> 64 * v(1) + 8 * v(2) + v(3)

\* The step emits exactly the character c into the chunk.
Emits(c) == chunk' = Append(chunk, c)

\* The step reads, after the backslash at i, a greedy run of n octal digits.
ReadsOctal(n) ==
    /\ i + n < Len(content)
    /\ \A k \in 1..n : IsOctal(At(content, i + k))
    /\ n = 3 \/ i + n + 1 = Len(content) \/ ~IsOctal(At(content, i + n + 1))
    /\ i' = i + 1 + n
    /\ Emits(OctalCode(Slice(content, i + 1, i + 1 + n)))

\* What a step does at a backslash that is followed by a character.
DecodesEscape ==
    (/\ pc = "inner" /\ InToken(content, i, depth)
     /\ At(content, i) = BACKSLASH /\ i + 1 < Len(content))
        => LET nxt == At(content, i + 1)
           IN  /\ depth' = depth
               /\ nxt \in NamedEscapes => (i' = i + 2 /\ Emits(NamedChar(nxt)))
               /\ IsOctal(nxt) => \E n \in 1..3 : ReadsOctal(n)
               /\ (nxt \notin NamedEscapes /\ ~IsOctal(nxt)) => (i' = i + 2 /\ Emits(nxt))

\* C10: inside a token every backslash followed by a character is decoded as an
\* escape: a named escape emits its character and consumes 2; a greedy run of 1
\* to 3 octal digits emits the character of that base-8 code and consumes the
\* backslash and the digits read; any other character is emitted with the
\* backslash dropped and consumes 2.  The depth never changes.
C10_EscapesDecoded == [][DecodesEscape]_vars

\* \111 is "I", and the fourth digit is copied as text.
C10_Witness ==
    /\ pc = "done"
    /\ content = Str(<<"(", "\\", "1", "1", "1", "1">>)
    /\ tokens = <<Str(<<"I", "1">>)>>

\* The block has no backslash: every parenthesis in it is unescaped.
NoBackslash(c) == \A k \in 1..Len(c) : c[k] # BACKSLASH

\* The "(" of text t less its ")".
ParenExcess(t) ==
    Cardinality({k \in 1..Len(t) : t[k] = LPAREN})
        - Cardinality({k \in 1..Len(t) : t[k] = RPAREN})

\* Every ")" of t closes a "(" of t, and every "(" of t is closed in t.
Balanced(t) ==
    /\ ParenExcess(t) = 0
    /\ \A m \in 0..Len(t) : ParenExcess(SubSeq(t, 1, m)) >= 0

\* What a step does at an unescaped parenthesis inside a token.
NestingStep ==
    (pc = "inner" /\ depth > 0 /\ i < Len(content)) =>
        /\ At(content, i) = LPAREN =>
              /\ depth' = depth + 1
              /\ chunk' = Append(chunk, LPAREN)
        /\ At(content, i) = RPAREN =>
              /\ depth' = depth - 1
              /\ chunk' = IF depth' = 0 THEN chunk ELSE Append(chunk, RPAREN)

\* A token that has just closed ended at the ")" matching its opening "(": in
\* a block with no escapes, the text between the two is balanced and is the
\* token.
EndsAtMatchingParen ==
    (pc = "inner" /\ depth = 0 /\ NoBackslash(content)) =>
        LET open == i - Len(chunk) - 2
        IN  /\ open >= 0
            /\ At(content, open) = LPAREN
            /\ At(content, i - 1) = RPAREN
            /\ chunk = Slice(content, open + 1, i - 1)
            /\ Balanced(chunk)

NestedBlock == Str(<<"(", "a", "(", "b", ")", "c", ")">>)

NestedToken == Str(<<"a", "(", "b", ")", "c">>)

\* C11: inside a token an unescaped "(" increments the depth and is emitted; an
\* unescaped ")" decrements the depth and is emitted unless the depth becomes
\* 0, where the token ends and that ")" is not emitted.  So a token ends at the
\* ")" matching its opening "(", and (a(b)c) yields the one token a(b)c.
C11_Nesting ==
    /\ [][NestingStep]_vars
    /\ [](EndsAtMatchingParen)
    /\ []((pc = "done" /\ content = NestedBlock) => tokens = <<NestedToken>>)

C11_Witness ==
    /\ pc = "done"
    /\ content = NestedBlock
    /\ tokens = <<NestedToken>>

\* The block opens a token at its first "(" and never closes it: no ")" after
\* that "(" brings the depth back to 0.
OpensUnclosed(c) ==
    /\ \E k \in 1..Len(c) : c[k] = LPAREN
    /\ LET open == Min({k \in 1..Len(c) : c[k] = LPAREN})
       IN  \A m \in open..Len(c) : ParenExcess(SubSeq(c, open, m)) > 0

\* The text after the first "(" of the block.
AfterOpen(c) ==
    SubSeq(c, Min({k \in 1..Len(c) : c[k] = LPAREN}) + 1, Len(c))

\* What the step does when the block ends inside a token.
YieldsPartial ==
    (pc = "inner" /\ depth > 0 /\ i >= Len(content)) =>
        /\ tokens' = Append(tokens, chunk)
        /\ pc' = "outer"
        /\ i' = i

\* C12: a token still open (depth > 0) at the end of the block raises no error:
\* it is yielded as the last token, with exactly the text accumulated so far.
C12_UnclosedYielded ==
    /\ [][YieldsPartial]_vars
    /\ []((pc = "done" /\ NoBackslash(content) /\ OpensUnclosed(content)) =>
             tokens = <<AfterOpen(content)>>)

C12_Witness ==
    /\ pc = "done"
    /\ content = Str(<<"(", "n", "(", "1", ")", "9">>)
    /\ depth = 1
    /\ tokens = <<Str(<<"n", "(", "1", ")", "9">>)>>

-----------------------------------------------------------------------------
(* Properties of extract_text's sanitizing steps, checked under SpecText *)

\* C13: sanitizer idempotence: the sanitizing steps applied to a string that is
\* already their output return the identical string.
C13_SanitizerIdempotent ==
    pc = "parse" => extract_text(<<sanitized>>) = sanitized

\* "en-" + "en-US" + "US": replacing the marker leaves "en- US", with no marker.
C13_Witness ==
    /\ pc = "parse"
    /\ tokens = <<Str(<<"e", "n", "-", "e", "n", "-", "U", "S", "U", "S">>)>>
    /\ sanitized = Str(<<"e", "n", "-", " ", "U", "S">>)

\* Code c is printable ASCII, or tab, CR or LF.
InPrintableRange(c) == (32 <= c /\ c <= 126) \/ c \in {9, 13, 10}

\* Text s has no run of two or more whitespace characters and no leading or
\* trailing whitespace.
WhitespaceCollapsed(s) ==
    /\ \A k \in 1..(Len(s) - 1) : ~(IsSpace(s[k]) /\ IsSpace(s[k + 1]))
    /\ s # <<>> => (~IsSpace(s[1]) /\ ~IsSpace(s[Len(s)]))

\* C14: the sanitized string has only characters in the printable ASCII range
\* plus tab/CR/LF and is whitespace-collapsed, whatever the tokens were.
C14_PrintableCollapsed ==
    pc = "parse" =>
        /\ \A k \in 1..Len(sanitized) : InPrintableRange(sanitized[k])
        /\ WhitespaceCollapsed(sanitized)

\* A token with leading whitespace and the character of \377.
C14_Witness ==
    /\ pc = "parse"
    /\ tokens = <<<<TAB, SPACE, 255, Ord("A")>>>>
    /\ strings = tokens
    /\ sanitized = <<Ord("A")>>

-----------------------------------------------------------------------------
(* Properties of read_stream_strings, checked under SpecRead *)

\* Group 1 of every match of STREAM_PATTERN from index k, in file order.
RECURSIVE Candidates(_, _)
Candidates(d, k) ==
    LET m == SearchStream(d, k)
    IN  IF m.found THEN <<m.group>> \o Candidates(d, m.end) ELSE <<>>

\* The candidate block decompresses.
Decompresses(raw) == zlib_decompress(raw) # ZlibError

\* The tokens a candidate contributes: those of its block when it decompresses,
\* none when it does not.
TokensOf(raw) ==
    IF Decompresses(raw) THEN _strings_from_stream(Latin1(zlib_decompress(raw)))
    ELSE <<>>

\* What a step does at a candidate that fails to decompress: no token, no
\* error, and the scan goes on after the candidate's end delimiter.
SkipsFailure ==
    (pc = "scan" /\ SearchStream(data, match_end).found
         /\ ~Decompresses(SearchStream(data, match_end).group)) =>
        /\ tokens' = tokens
        /\ pc' = "scan"
        /\ match_end' = SearchStream(data, match_end).end

\* C15: read_stream_strings skips every candidate block whose decompression
\* fails and goes on scanning: the tokens yielded are those of the candidates
\* that decompress, in file order.
C15_FailuresSkipped ==
    /\ [][SkipsFailure]_vars
    /\ [](pc = "done" =>
             LET cs == Candidates(data, 0)
             IN  tokens = Concat([k \in 1..Len(cs) |-> TokensOf(cs[k])]))

\* A failing block between two blocks that decompress.
C15_Witness ==
    /\ pc = "done"
    /\ LET cs == Candidates(data, 0)
       IN  /\ Len(cs) = 3
           /\ Decompresses(cs[1]) /\ ~Decompresses(cs[2]) /\ Decompresses(cs[3])
    /\ tokens = <<Str(<<"A">>), Str(<<"B">>), Str(<<"C">>)>>

-----------------------------------------------------------------------------
(* Properties of parse_rounds, checked under Spec *)

\* C16: a round named "Tiebreakers" in the rubric parse_rounds returns is the
\* last round of the rubric (so it occurs once, after the numbered rounds),
\* wherever the word stands in the document.
C16_TiebreakersLast ==
    pc \in {"main", "done"} =>
        \A k \in 1..Len(rounds) :
            rounds[k][1] = TiebreakersWord => k = Len(rounds)

\* The document begins with the word, and a numbered round follows it.
C16_Witness ==
    /\ pc = "done"
    /\ ExactAt(sanitized, 0, TiebreakersWord)
    /\ Len(rounds) = 2
    /\ rounds[1][1] # TiebreakersWord
    /\ rounds[2][1] = TiebreakersWord

-----------------------------------------------------------------------------
(* Properties of clean_answer, checked under SpecCA *)

\* The step is the call of clean_answer: answer is the argument, answer' the
\* value returned.
Cleans == pc = "clean" /\ pc' = "done"

\* The comma at o[k] stands between two digits.
BetweenDigits(o, k) ==
    1 < k /\ k < Len(o) /\ IsDigit(o[k - 1]) /\ IsDigit(o[k + 1])

\* o[k] is followed by exactly one space, and preceded by exactly one.
OneSpaceAfter(o, k) ==
    k < Len(o) /\ o[k + 1] = SPACE /\ (k + 2 <= Len(o) => o[k + 2] # SPACE)

OneSpaceBefore(o, k) ==
    1 < k /\ o[k - 1] = SPACE /\ (2 < k => o[k - 2] # SPACE)

\* Every comma of o that is not between two digits is followed by exactly one
\* space and preceded by none, and every "/" has exactly one space on each side.
EveryDelimiterSpaced(o) ==
    \A k \in 1..Len(o) :
        /\ (o[k] = COMMA /\ ~BetweenDigits(o, k)) =>
              (OneSpaceAfter(o, k) /\ (1 < k => ~IsSpace(o[k - 1])))
        /\ o[k] = SLASH => (OneSpaceBefore(o, k) /\ OneSpaceAfter(o, k))

\* C17 as stated: a comma between two digits is kept with no space on either
\* side, every other comma is followed by exactly one space and preceded by
\* none, every "/" has exactly one space on each side, and the example
\* 1,000 / 2,500 is returned as it is.
C17_EveryDelimiterSpaced ==
    [][Cleans =>
          /\ EveryDelimiterSpaced(answer')
          /\ answer = NumericExample => answer' = NumericExample]_vars

\* The spacing that holds inside the answer: a comma that a character follows
\* is between two digits or has exactly one space and then text after it, and
\* has whitespace before it only after another comma; a "/" that a character
\* precedes has exactly one space before it, and a "/" that a character follows
\* has exactly one space and then text after it, or a comma.
DelimitersSpacedInside(o) ==
    \A k \in 1..Len(o) :
        /\ (o[k] = COMMA /\ k < Len(o) /\ ~BetweenDigits(o, k)) =>
              (o[k + 1] = SPACE /\ k + 2 <= Len(o) /\ ~IsSpace(o[k + 2]))
        /\ (o[k] = COMMA /\ 1 < k /\ IsSpace(o[k - 1])) =>
              (2 < k /\ o[k - 2] = COMMA)
        /\ (o[k] = SLASH /\ 1 < k) =>
              (o[k - 1] = SPACE /\ 2 < k /\ ~IsSpace(o[k - 2]))
        /\ (o[k] = SLASH /\ k < Len(o)) =>
              \/ o[k + 1] = COMMA
              \/ (o[k + 1] = SPACE /\ k + 2 <= Len(o) /\ ~IsSpace(o[k + 2]))

\* C17, amended: the delimiters are spaced as stated except at the two ends of
\* the answer and next to another delimiter; digit groups split by the comma
\* normalization are joined again, so the example (and the same answer with
\* other spacing and a note) is returned as 1,000 / 2,500.
C17_DelimitersSpacedInside ==
    [][Cleans =>
          /\ DelimitersSpacedInside(answer')
          /\ answer \in {NumericExample, NumericNoted} => answer' = NumericExample]_vars

C17_Witness ==
    /\ pc = "done"
    /\ answer = NumericExample

-----------------------------------------------------------------------------
(* Further properties of _parse_questions, checked under SpecPQ *)

\* The loop is at a match numbered above expected_number, which is set.
AtGreaterNumber ==
    /\ pc = "loop" /\ mi < Len(matches)
    /\ expected_number # None
    /\ NumberOf(At(matches, mi)) > expected_number

\* "1. Q? A 3. 2. Q? A ": the marker 3 is followed at once by the marker 2.
GapBody ==
    Str(<<"1", ".", " ", "Q", "?", " ", "A", " ", "3", ".", " ",
          "2", ".", " ", "Q", "?", " ", "A", " ">>)

\* C18: once expected_number is set, a match numbered above it stops the
\* processing of the body, whatever its fragment (empty or not): the loop ends
\* there, with no entry for that match or for any match after it.
C18_GreaterNumberStops ==
    /\ [][AtGreaterNumber => (pc' = "done" /\ entries' = entries)]_vars
    /\ []((/\ pc = "done" /\ Len(matches) >= 2
           /\ HasAnswer(matches[1])
           /\ NumberOf(matches[2]) > NumberOf(matches[1]) + 1)
              => Len(entries) = 1)

-----------------------------------------------------------------------------
(* Further properties of _strings_from_stream, checked under SpecTok *)

\* The scanner is outside any token, at a "(" that a backslash precedes.
AtEscapedParenOutside ==
    /\ pc = "outer" /\ 0 < i /\ i < Len(content)
    /\ At(content, i) = LPAREN /\ At(content, i - 1) = BACKSLASH

\* C19: outside a token, a "(" immediately preceded by a backslash does not
\* start a token: the scanner stays outside, and \(n) yields no token.
C19_EscapedParenOpensNothing ==
    /\ [][AtEscapedParenOutside => (pc' = "outer" /\ depth' = depth)]_vars
    /\ []((pc = "done" /\ content = <<BACKSLASH, LPAREN, Ord("n"), RPAREN>>)
             => tokens = <<>>)

\* The step is an iteration of the outer or of the inner loop.
LoopIteration ==
    \/ pc = "outer" /\ i < Len(content)
    \/ pc = "inner" /\ i < Len(content) /\ depth > 0

\* Every iteration moves the index on, and no step moves it back.
IndexAdvances == (LoopIteration => i' > i) /\ i' >= i

\* The tokens are only ever extended, by one token at their end.
AppendsTokens ==
    \/ tokens' = tokens
    \/ Len(tokens') = Len(tokens) + 1 /\ SubSeq(tokens', 1, Len(tokens)) = tokens

\* The "(" among the characters the scan has consumed.
ParensConsumed == Cardinality({k \in 1..i : content[k] = LPAREN})

\* The tokens yielded and the token that is open.
TokensOpened == Len(tokens) + (IF pc = "inner" THEN 1 ELSE 0)

\* C20: _strings_from_stream terminates on every block: the index strictly
\* increases in every iteration of both loops and never exceeds the length of
\* the block, so no character is consumed twice; the tokens are yielded one
\* after the other as the scan meets their "(", and there are at most as many
\* tokens as the block has "(".
C20_Terminates ==
    /\ [][IndexAdvances /\ AppendsTokens]_vars
    /\ [](0 <= i /\ i <= Len(content))
    /\ [](TokensOpened <= ParensConsumed)
    /\ [](pc = "done" =>
             Len(tokens) <= Cardinality({k \in 1..Len(content) : content[k] = LPAREN}))
    /\ <>(pc = "done")

\* Two tokens out of three "(": the second token holds the third "(".
C20_Witness ==
    /\ pc = "done"
    /\ content = Str(<<"(", ")", "(", "n", "(">>)
    /\ i = Len(content)
    /\ tokens = <<<<>>, Str(<<"n", "(">>)>>

====
